---- MODULE Spec2Model ----
(***************************************************************************)
(* State-machine model of src/parameter_updater.py: the recursive walk     *)
(* process_object over an in-memory object graph, with its processed set,  *)
(* its two module-level ledgers (changed_ids, same_ids) and the call       *)
(* stack of the recursion made explicit.                                   *)
(*                                                                         *)
(* One frame of `stack` is one activation of process_object.  A frame is   *)
(* at pc "enter" before line 156 has run and at pc "members" while it is   *)
(* inside the loop of lines 203-224.  Exceptions are modelled where the    *)
(* source can raise them: in the policy block of lines 191-196 (outside    *)
(* every try), in get_member_names (line 201, inside the outer try) and in *)
(* getattr(obj, name) (line 205, inside the inner try).                    *)
(***************************************************************************)
EXTENDS Integers, Sequences, FiniteSets, TLC

\* ---------------------------------------------------------------- bounds
NumNodes == 4        \* objects of the graph are 1..NumNodes
MaxDepthBound == 2   \* max_depth is drawn from 0..MaxDepthBound
MaxList == 2         \* longest list value of a member
MaxWalks == 2        \* successive top-level calls of process_object

Nodes == 1..NumNodes

\* ---------------------------------------------------------------- values
None == 0                      \* Python None (an object without id)
NoToken == NumNodes + 1        \* a SpeckleId token that equals no object's id

Absent == [k |-> "absent"]                 \* the attribute does not exist
RaiseV == [k |-> "raise"]                  \* reading the attribute raises
ScalarV(s) == [k |-> "scalar", s |-> s]    \* a str / number
NodeV(n) == [k |-> "node", n |-> n]        \* a Base instance
ListV(l) == [k |-> "list", l |-> l]        \* a Python list

target_key == "w"
target_value == ScalarV("200")
OldValue == ScalarV("5")

VARIABLES
    fields,       \* fields[n][name]: the attributes of object n
    oid,          \* oid[n]: the id attribute of object n (None when it has none)
    fault,        \* fault[n]: where inspecting object n raises ("none", "policy", "names")
    order,        \* the order in which get_member_names lists the names
    obj0,         \* the obj argument of the top-level call
    max_depth,    \* the max_depth argument
    SpeckleId,    \* the SpeckleId argument
    processed,    \* the processed set of the running top-level call
    changed_ids,  \* module-level list, line 33
    same_ids,     \* module-level list, line 34
    stack,        \* activations of process_object, innermost last
    status,       \* "idle", "running", "returned", "raised"
    result,       \* value returned by the last top-level call that returned
    walks,        \* top-level calls started so far
    pre,          \* history: fields when the running/last top-level call started
    cmark,        \* history: Len(changed_ids) when that call started
    smark,        \* history: Len(same_ids) when that call started
    pmark,        \* history: cmark of the call before it
    visits,       \* history: visits[n] = times lines 173-196 ran on n in that call
    writes,       \* history: writes[n] = times line 193 wrote n's target field in that call
    last,         \* history: how the activation that ended last ended
    mpc,          \* where main is: a step of its pipeline, or how it ended
    trail         \* history: the steps of main that succeeded, in order

vars == <<fields, oid, fault, order, obj0, max_depth, SpeckleId, processed,
          changed_ids, same_ids, stack, status, result, walks, pre, cmark,
          smark, pmark, visits, writes, last, mpc, trail>>

graph == <<oid, fault, order, obj0, max_depth, SpeckleId>>
hist == <<pre, cmark, smark, pmark>>
pipeline == <<mpc, trail>>

\* How an activation ended: `how` is "cut" (line 160), "nonnode" (line 163),
\* "seen" (line 171), "done" (line 229) or "raised"; `value` is what it
\* returned; `mutated` tells whether changed_ids grew while it ran; `top`
\* tells whether it was the top-level call.
Ended(how, frame, value, ledger) ==
    [how |-> how, obj |-> frame.obj, depth |-> frame.depth, value |-> value,
     mutated |-> Len(ledger) > frame.mark, top |-> frame.depth = 0]

\* ------------------------------------------------- the code's conditions
\* (a ceiling that is one level too generous)
DepthExceededLate(depth) == depth > max_depth + 1

\* line 158: if depth > max_depth
DepthExceeded(depth) == depth > max_depth

\* line 162: isinstance(obj, Base)
IsBase(v) == v.k = "node"

\* line 165: get_safe_attribute(obj, 'id')
get_safe_attribute_id(n) == oid[n]

\* line 169: if obj_id and obj_id in processed
AlreadyProcessed(obj_id, proc) == obj_id # None /\ obj_id \in proc

\* (an absent id is recorded like any other)
AddProcessedAny(obj_id, proc) == proc \cup {obj_id}

\* (the id is never recorded)
AddProcessedSkip(obj_id, proc) == proc

\* lines 173-174: if obj_id: processed.add(obj_id)
AddProcessed(obj_id, proc) == IF obj_id # None THEN proc \cup {obj_id} ELSE proc

\* (every processed id is appended, the token's too)
RecordSameAlways(obj_id, ledger) == Append(ledger, obj_id)

\* lines 183-184: if obj_id != SpeckleId: same_ids.append(obj_id)
RecordSame(obj_id, ledger) ==
    IF obj_id # SpeckleId THEN Append(ledger, obj_id) ELSE ledger

\* (the field is written whether or not the object has it)
HasTargetAlways(f, n) == TRUE

\* (a field that already holds the replacement is left alone)
HasTargetUnlessSame(f, n) ==
    f[n][target_key].k # "absent" /\ f[n][target_key] # target_value

\* line 191: hasattr(obj, target_key)
HasTarget(f, n) == f[n][target_key].k # "absent"

\* (the write also removes the object's member b)
SetTargetAndClear(f, n) ==
    [f EXCEPT ![n][target_key] = target_value, ![n]["b"] = Absent]

\* line 193: obj[target_key] = target_value
SetTarget(f, n) == [f EXCEPT ![n][target_key] = target_value]

\* line 195: changed_ids.append(obj_id)
RecordChanged(obj_id, ledger) == Append(ledger, obj_id)

\* (the names are visited last to first)
member_names_reversed(f, n) ==
    LET present == SelectSeq(order, LAMBDA name : f[n][name].k # "absent")
    IN [i \in 1..Len(present) |-> present[Len(present) + 1 - i]]

\* line 201: obj.get_member_names() -- the names the object has, in listing order
member_names(f, n) ==
    SelectSeq(order, LAMBDA name : f[n][name].k # "absent")

\* (the flag is overwritten instead of or-ed)
OrChangesLast(changes_made, sub_changes) == sub_changes

\* lines 211, 220: changes_made = changes_made or sub_changes
OrChanges(changes_made, sub_changes) == changes_made \/ sub_changes

\* (the loop does not move on)
RestStuck(names) == names

\* line 203: for name in member_names -- the names still to visit
Rest(names) == Tail(names)

\* ------------------------------------------------------------ the stack
Frame(v, depth, mark) ==
    [obj |-> v, depth |-> depth, pc |-> "enter", names |-> <<>>,
     items |-> <<>>, changes_made |-> FALSE, mark |-> mark]

Top == stack[Len(stack)]
Below == SubSeq(stack, 1, Len(stack) - 1)
Running == status = "running" /\ stack # <<>>

\* The innermost activation returns `value` (lines 160, 163, 171, 229): the
\* caller resumes at line 211 / 220, or the top-level call has returned.
ReturnTo(stk, value) ==
    IF stk = <<>> THEN stk
    ELSE [stk EXCEPT ![Len(stk)].changes_made =
                OrChanges(stk[Len(stk)].changes_made, value)]

\* (the exception is caught inside the list loop: the list goes on)
RaiseToResume(stk) == stk

\* (the exception is caught by the outer handler: the member loop is left)
RaiseToAbort(stk) ==
    IF stk = <<>> THEN stk
    ELSE [stk EXCEPT ![Len(stk)].items = <<>>, ![Len(stk)].names = <<>>]

\* An exception leaves the innermost activation: the caller's inner handler
\* (lines 222-224) catches it and goes on with the next member name, so the
\* rest of a list being iterated is dropped.
RaiseTo(stk) ==
    IF stk = <<>> THEN stk
    ELSE [stk EXCEPT ![Len(stk)].items = <<>>]

\* -------------------------------------------------------------- actions
\* A top-level call process_object(obj, transport, SpeckleId, key, value)
\* (line 309): processed is None, so lines 153-154 make a fresh set.
Invoke ==
    /\ status # "running"
    /\ walks < MaxWalks
    /\ status' = "running"
    /\ walks' = walks + 1
    /\ processed' = {}
    /\ stack' = <<Frame(obj0, 0, Len(changed_ids))>>
    /\ pre' = fields
    /\ pmark' = cmark
    /\ cmark' = Len(changed_ids)
    /\ smark' = Len(same_ids)
    /\ visits' = [n \in Nodes |-> 0]
    /\ writes' = [n \in Nodes |-> 0]
    /\ UNCHANGED <<fields, graph, changed_ids, same_ids, result, last>>

\* A caller other than main makes the call.
Call == Invoke /\ UNCHANGED pipeline

\* The innermost activation ends with `value`.
Finish(how, value) ==
    /\ stack' = ReturnTo(Below, value)
    /\ last' = Ended(how, Top, value, changed_ids)
    /\ IF Below = <<>>
         THEN status' = "returned" /\ result' = value
         ELSE UNCHANGED <<status, result>>

\* lines 158-160
EnterDepthCut ==
    /\ Running /\ Top.pc = "enter"
    /\ DepthExceeded(Top.depth)
    /\ Finish("cut", FALSE)
    /\ UNCHANGED <<fields, graph, pipeline, processed, changed_ids, same_ids,
                   walks, hist, visits, writes>>

\* lines 162-163
EnterNonNode ==
    /\ Running /\ Top.pc = "enter"
    /\ ~DepthExceeded(Top.depth)
    /\ ~IsBase(Top.obj)
    /\ Finish("nonnode", FALSE)
    /\ UNCHANGED <<fields, graph, pipeline, processed, changed_ids, same_ids,
                   walks, hist, visits, writes>>

\* lines 165-171
EnterSeen ==
    /\ Running /\ Top.pc = "enter"
    /\ ~DepthExceeded(Top.depth)
    /\ IsBase(Top.obj)
    /\ AlreadyProcessed(get_safe_attribute_id(Top.obj.n), processed)
    /\ Finish("seen", FALSE)
    /\ UNCHANGED <<fields, graph, pipeline, processed, changed_ids, same_ids,
                   walks, hist, visits, writes>>

\* (the depth is not looked at before the id)
AdmittedAnyDepth ==
    /\ Running /\ Top.pc = "enter"
    /\ IsBase(Top.obj)
    /\ ~AlreadyProcessed(get_safe_attribute_id(Top.obj.n), processed)

\* The guards of lines 158-171 let the object through.
Admitted ==
    /\ Running /\ Top.pc = "enter"
    /\ ~DepthExceeded(Top.depth)
    /\ IsBase(Top.obj)
    /\ ~AlreadyProcessed(get_safe_attribute_id(Top.obj.n), processed)

\* lines 173-201 when nothing raises outside a try: the id is recorded, the
\* policy is applied, the member names are listed (an exception of
\* get_member_names is caught at line 226 and leaves no name to visit).
EnterProcess ==
    /\ Admitted
    /\ fault[Top.obj.n] # "policy"
    /\ LET n == Top.obj.n
           obj_id == get_safe_attribute_id(n)
           hit == HasTarget(fields, n)
           f2 == IF hit THEN SetTarget(fields, n) ELSE fields
       IN /\ processed' = AddProcessed(obj_id, processed)
          /\ same_ids' = RecordSame(obj_id, same_ids)
          /\ fields' = f2
          /\ changed_ids' = IF hit THEN RecordChanged(obj_id, changed_ids)
                                   ELSE changed_ids
          /\ visits' = [visits EXCEPT ![n] = @ + 1]
          /\ writes' = IF hit THEN [writes EXCEPT ![n] = @ + 1] ELSE writes
          /\ stack' = [stack EXCEPT
                ![Len(stack)].pc = "members",
                ![Len(stack)].changes_made = hit,
                ![Len(stack)].names =
                    IF fault[n] = "names" THEN <<>> ELSE member_names(f2, n)]
    /\ UNCHANGED <<graph, pipeline, status, result, walks, hist, last>>

\* lines 173-193 when the policy block raises (hasattr, the read or the
\* write of the target field): the id and the same_ids entry are already
\* recorded, nothing is written, and the exception leaves the activation.
EnterRaise ==
    /\ Admitted
    /\ fault[Top.obj.n] = "policy"
    /\ LET n == Top.obj.n
           obj_id == get_safe_attribute_id(n)
       IN /\ processed' = AddProcessed(obj_id, processed)
          /\ same_ids' = RecordSame(obj_id, same_ids)
          /\ visits' = [visits EXCEPT ![n] = @ + 1]
    /\ stack' = RaiseTo(Below)
    /\ last' = Ended("raised", Top, FALSE, changed_ids)
    /\ IF Below = <<>> THEN status' = "raised" ELSE UNCHANGED status
    /\ UNCHANGED <<fields, graph, pipeline, changed_ids, result, walks, hist,
                   writes>>

\* The activation is in the loop of line 203 and not inside a list.
AtMember ==
    /\ Running /\ Top.pc = "members"
    /\ Top.items = <<>> /\ Top.names # <<>>

\* (the member is read as it was before the policy ran)
MemberValueBefore == pre[Top.obj.n][Head(Top.names)]

\* line 205: value = getattr(obj, name)
MemberValue == fields[Top.obj.n][Head(Top.names)]

\* lines 205-210: the member is a Base object: recurse at depth + 1
MemberNode ==
    /\ AtMember
    /\ IsBase(MemberValue)
    /\ stack' = Append([stack EXCEPT ![Len(stack)].names = Rest(@)],
                       Frame(MemberValue, Top.depth + 1, Len(changed_ids)))
    /\ UNCHANGED <<fields, graph, pipeline, processed, changed_ids, same_ids,
                   status, result, walks, hist, visits, writes, last>>

\* lines 214-216: the member is a list: iterate it
MemberList ==
    /\ AtMember
    /\ MemberValue.k = "list"
    /\ stack' = [stack EXCEPT ![Len(stack)].names = Rest(@),
                              ![Len(stack)].items = MemberValue.l]
    /\ UNCHANGED <<fields, graph, pipeline, processed, changed_ids, same_ids,
                   status, result, walks, hist, visits, writes, last>>

\* lines 205-214: the member is neither a Base nor a list: next name
MemberOther ==
    /\ AtMember
    /\ MemberValue.k = "scalar"
    /\ stack' = [stack EXCEPT ![Len(stack)].names = Rest(@)]
    /\ UNCHANGED <<fields, graph, pipeline, processed, changed_ids, same_ids,
                   status, result, walks, hist, visits, writes, last>>

\* lines 205, 222-224: getattr raises, the inner handler goes to the next name
MemberRaise ==
    /\ AtMember
    /\ MemberValue.k = "raise"
    /\ stack' = [stack EXCEPT ![Len(stack)].names = Rest(@)]
    /\ UNCHANGED <<fields, graph, pipeline, processed, changed_ids, same_ids,
                   status, result, walks, hist, visits, writes, last>>

\* lines 216-219: the next list element is a Base object: recurse at depth + 1
ItemNode ==
    /\ Running /\ Top.pc = "members" /\ Top.items # <<>>
    /\ IsBase(Head(Top.items))
    /\ stack' = Append([stack EXCEPT ![Len(stack)].items = Tail(@)],
                       Frame(Head(Top.items), Top.depth + 1, Len(changed_ids)))
    /\ UNCHANGED <<fields, graph, pipeline, processed, changed_ids, same_ids,
                   status, result, walks, hist, visits, writes, last>>

\* lines 216-217: the next list element is no Base object: skipped
ItemOther ==
    /\ Running /\ Top.pc = "members" /\ Top.items # <<>>
    /\ ~IsBase(Head(Top.items))
    /\ stack' = [stack EXCEPT ![Len(stack)].items = Tail(@)]
    /\ UNCHANGED <<fields, graph, pipeline, processed, changed_ids, same_ids,
                   status, result, walks, hist, visits, writes, last>>

\* line 229: return changes_made
Return ==
    /\ Running /\ Top.pc = "members"
    /\ Top.items = <<>> /\ Top.names = <<>>
    /\ Finish("done", Top.changes_made)
    /\ UNCHANGED <<fields, graph, pipeline, processed, changed_ids, same_ids,
                   walks, hist, visits, writes>>

\* One step of the running call.
Step ==
    \/ EnterDepthCut
    \/ EnterNonNode
    \/ EnterSeen
    \/ EnterProcess
    \/ EnterRaise
    \/ MemberNode
    \/ MemberList
    \/ MemberOther
    \/ MemberRaise
    \/ ItemNode
    \/ ItemOther
    \/ Return

\* ------------------------------------------------------- initial states
\* The object graphs the walk is run on.  Every graph holds the chain
\* 1.a -> 2.a -> ... -> NumNodes; one object `src` has a second member b.
\*   ws    the objects that have the target field
\*   tv    the value of the target field where it exists
\*   anon  the objects without an id
\*   bad   the objects whose inspection raises, at the place `kind`
MkGraph(ws, tv, src, b, anon, bad, kind, tok) ==
    [fields |-> [n \in Nodes |->
                   [a |-> IF n < NumNodes THEN NodeV(n + 1) ELSE Absent,
                    w |-> IF n \in ws THEN tv ELSE Absent,
                    b |-> IF n = src THEN b ELSE Absent]],
     oid |-> [n \in Nodes |-> IF n \in anon THEN None ELSE n],
     fault |-> [n \in Nodes |-> IF n \in bad THEN kind ELSE "none"],
     obj0 |-> NodeV(1),
     tok |-> tok]

Refs == {NodeV(n) : n \in Nodes}
Elems == Refs \cup {ScalarV("s")}
\* Lists of at most MaxList elements, each a Base object or a scalar.
Lists == UNION {[1..len -> Elems] : len \in 0..MaxList}
Few == {{}, Nodes} \cup {{n} : n \in Nodes}

\* Shapes: cycles, self-references, diamonds and shortcuts made by one extra
\* reference, with the target field on any set of objects.
Shapes ==
    {MkGraph(ws, OldValue, src, b, {}, {}, "none", NoToken) :
        ws \in SUBSET Nodes, src \in Nodes, b \in Refs \cup {Absent}}

\* The same shapes with a SpeckleId token that is the id of the root.
RootToken ==
    {MkGraph(ws, OldValue, src, b, {}, {}, "none", 1) :
        ws \in Few, src \in Nodes, b \in Refs \cup {Absent}}

\* Objects without an id.
Anonymous ==
    {MkGraph(ws, OldValue, src, b, {x}, {}, "none", NoToken) :
        ws \in {{}, Nodes}, src \in Nodes, b \in Refs \cup {Absent},
        x \in Nodes}

\* List members, with nodes and scalars mixed, on the root and below it.
WithLists ==
    {MkGraph(ws, OldValue, 1, ListV(l), {}, {}, "none", NoToken) :
        ws \in {{}, {3}, Nodes}, l \in Lists}
    \cup {MkGraph(Nodes, OldValue, 2, ListV(l), {}, {}, "none", NoToken) :
            l \in Lists}

\* Inspection that raises: the policy block or get_member_names of one
\* object x, reached through a reference or a list, or a member whose
\* read raises.
FaultyMembers(x) ==
    Refs \cup {ListV(<<NodeV(x), r>>) : r \in Refs}
         \cup {ListV(<<r, NodeV(x)>>) : r \in Refs}

Faulty ==
    UNION {{MkGraph(Nodes, OldValue, src, b, {}, {x}, kind, NoToken) :
              src \in Nodes, kind \in {"policy", "names"},
              b \in FaultyMembers(x)} : x \in Nodes}
    \cup {MkGraph(ws, OldValue, src, RaiseV, {}, {}, "none", NoToken) :
            ws \in {{}, Nodes}, src \in Nodes}

\* A target field that holds an object or a list of one object.
TargetIsNode ==
    {MkGraph({x}, r, 1, Absent, {}, {}, "none", NoToken) :
        x \in Nodes, r \in Refs \cup {ListV(<<e>>) : e \in Refs}}

\* A top-level obj that is no Base instance.
NonNode ==
    {[MkGraph({}, OldValue, 1, Absent, {}, {}, "none", NoToken)
        EXCEPT !.obj0 = ScalarV("s")]}

\* A root with a member a = X and a member b = [Y, scalar, X], where only Y
\* has the target field and X and Y have no members (X is object 2, Y is
\* object 3); this one list is longer than the lists of Lists.
Scenario ==
    {[MkGraph({3}, OldValue, 1, Absent, {}, {}, "none", NoToken)
        EXCEPT !.fields[1].b = ListV(<<NodeV(3), ScalarV("s"), NodeV(2)>>),
               !.fields[2].a = Absent,
               !.fields[3].a = Absent]}

Graphs == Shapes \cup RootToken \cup Anonymous \cup WithLists \cup Faulty
             \cup TargetIsNode \cup NonNode \cup Scenario

NoneEnded ==
    [how |-> "none", obj |-> Absent, depth |-> 0, value |-> FALSE,
     mutated |-> FALSE, top |-> FALSE]

Init ==
    /\ \E g \in Graphs :
         /\ fields = g.fields
         /\ oid = g.oid
         /\ fault = g.fault
         /\ obj0 = g.obj0
         /\ SpeckleId = g.tok
    /\ order \in {<<"a", "w", "b">>, <<"b", "w", "a">>}
    /\ max_depth \in 0..MaxDepthBound
    /\ processed = {}
    /\ changed_ids = <<>>
    /\ same_ids = <<>>
    /\ stack = <<>>
    /\ status = "idle"
    /\ result = FALSE
    /\ walks = 0
    /\ pre = fields
    /\ cmark = 0
    /\ smark = 0
    /\ pmark = 0
    /\ visits = [n \in Nodes |-> 0]
    /\ writes = [n \in Nodes |-> 0]
    /\ last = NoneEnded
    /\ mpc = "none"
    /\ trail = <<>>

Next == Call \/ Step

Spec == Init /\ [][Next]_vars

\* The graphs of Graphs that differ in what steers the walk -- references,
\* ids, exceptions -- with the target field on every object.
Steering ==
    {MkGraph(Nodes, OldValue, src, b, anon, {}, "none", NoToken) :
        src \in Nodes, b \in Refs \cup {Absent},
        anon \in {{}} \cup {{x} : x \in Nodes}}
    \cup {MkGraph(Nodes, OldValue, 1, ListV(l), {}, {}, "none", NoToken) :
            l \in Lists}
    \cup UNION {{MkGraph(Nodes, OldValue, 1, b, {}, {x}, kind, NoToken) :
                   kind \in {"policy", "names"}, b \in FaultyMembers(x)} :
                x \in Nodes}
    \cup {MkGraph(Nodes, OldValue, src, RaiseV, {}, {}, "none", NoToken) :
            src \in Nodes}
    \cup NonNode

FairInit == Init /\ \E g \in Steering : fields = g.fields /\ oid = g.oid
                                         /\ fault = g.fault /\ obj0 = g.obj0
                                         /\ SpeckleId = g.tok

\* The code runs a started call to its end: it is single-threaded and
\* synchronous, so a step that can be taken is taken.
FairSpec == FairInit /\ [][Next]_vars /\ WF_vars(Step)

\* ------------------------------------------------------------------ main
\* main (lines 231-367) as a pipeline of steps.  mpc is the step main is
\* about to take; it ends at "returned" (a return statement before the end
\* of the function), "reraised" (line 367) or "completed" (the end of the
\* function, after the commit).  What the server, the environment and the
\* SDK answer is the outcome of a step: "ok", "none" (a value that tests
\* false) or "exc" (an exception).

\* line 134: max_depth: int = 10, the value main's call leaves in force
DefaultMaxDepth == 10

walker == <<fields, oid, fault, order, obj0, max_depth, SpeckleId, processed,
            changed_ids, same_ids, stack, status, result, walks, pre, cmark,
            smark, pmark, visits, writes, last>>

\* URLs, as the scheme and the four parts the pattern of line 58 captures;
\* "" is a part that is missing.
Groups == {"", "x"}
Urls ==
    [scheme : {"https", "http", "ftp"}, server : Groups, stream : Groups,
     branch : Groups, commit : Groups]

NoParts == [k |-> "none"]

\* lines 57-72: the pattern matches http(s) URLs whose four parts are not
\* empty; anything else gives None
parse_speckle_url(url) ==
    IF /\ url.scheme \in {"http", "https"}
       /\ url.server # "" /\ url.stream # ""
       /\ url.branch # "" /\ url.commit # ""
    THEN [k |-> "parts", server |-> url.server, stream_id |-> url.stream,
          branch_name |-> url.branch, commit_id |-> url.commit]
    ELSE NoParts

\* line 254: os.getenv('SPECKLE_TOKEN') -- unset, empty or a token
EnvTokens == {"unset", "", "t"}

\* line 257: `if not token`
Falsy(token) == token \in {"unset", ""}

\* (only an exception stops the run)
ProceedsUnlessRaised(outcome) == outcome # "exc"

\* lines 249-251, 257-259, 272-274, 277-279, 291-293, 296-298, 319-321,
\* 332-334, 352-363: main goes on to the next step only when the step gave
\* a value that tests true; otherwise it returns
Proceeds(outcome) == outcome = "ok"

\* A step of main ends with `outcome`: it goes on to `next`, or the run ends
\* -- at a return statement, or at `onexc` for an exception.
Advance(step, outcome, next, onexc) ==
    /\ trail' = IF outcome = "ok" THEN Append(trail, step) ELSE trail
    /\ mpc' = IF Proceeds(outcome) THEN next
              ELSE IF outcome = "exc" THEN onexc ELSE "returned"

\* lines 246-251
ParseUrl ==
    /\ mpc = "parse"
    /\ \E url \in Urls :
         Advance("parse",
                 IF parse_speckle_url(url) = NoParts THEN "none" ELSE "ok",
                 "token", "returned")
    /\ UNCHANGED walker

\* lines 254-259
GetToken ==
    /\ mpc = "token"
    /\ \E token \in EnvTokens :
         Advance("token", IF Falsy(token) THEN "none" ELSE "ok",
                 "auth", "returned")
    /\ UNCHANGED walker

\* lines 267-274: SpeckleClient, get_account_from_token, authenticate
Authenticate ==
    /\ mpc = "auth"
    /\ \E outcome \in {"ok", "exc"} :
         Advance("auth", outcome, "verify", "returned")
    /\ UNCHANGED walker

\* lines 277-279 with 120-131: verify_token_and_permissions turns every
\* exception into False
VerifyPermissions ==
    /\ mpc = "verify"
    /\ \E outcome \in {"ok", "none"} :
         Advance("verify", outcome, "transport", "returned")
    /\ UNCHANGED walker

\* lines 282-286: ServerTransport(...), inside the outer try only
MakeTransport ==
    /\ mpc = "transport"
    /\ \E outcome \in {"ok", "exc"} :
         Advance("transport", outcome, "commit", "reraised")
    /\ UNCHANGED walker

\* lines 289-298: client.commit.get
GetCommit ==
    /\ mpc = "commit"
    /\ \E outcome \in {"ok", "none", "exc"} :
         Advance("commit", outcome, "receive", "returned")
    /\ UNCHANGED walker

\* lines 301-304 and 319-321: operations.receive
Receive ==
    /\ mpc = "receive"
    /\ \E outcome \in {"ok", "exc"} :
         Advance("receive", outcome, "process", "returned")
    /\ UNCHANGED walker

\* line 309: main calls process_object on the received object
Process ==
    /\ mpc = "process"
    /\ Invoke
    /\ mpc' = "walking"
    /\ UNCHANGED trail

\* lines 309-321: the call has ended; its value is dropped, an exception
\* that left it is caught at line 319
AfterProcess ==
    /\ mpc = "walking"
    /\ status \in {"returned", "raised"}
    /\ Advance("process", IF status = "returned" THEN "ok" ELSE "exc",
               "stream", "returned")
    /\ UNCHANGED walker

\* lines 331-334: client.stream.get
GetStream ==
    /\ mpc = "stream"
    /\ \E outcome \in {"ok", "none", "exc"} :
         Advance("stream", outcome, "send", "returned")
    /\ UNCHANGED walker

\* line 336: operations.send
Send ==
    /\ mpc = "send"
    /\ \E outcome \in {"ok", "exc"} :
         Advance("send", outcome, "create", "returned")
    /\ UNCHANGED walker

\* lines 340-349: client.commit.create, then the end of the function
CreateCommit ==
    /\ mpc = "create"
    /\ \E outcome \in {"ok", "exc"} :
         Advance("create", outcome, "completed", "returned")
    /\ UNCHANGED walker

\* The objects main may receive: with and without the target field, with a
\* self-reference, a member whose read raises, a list, an object without
\* id, a policy block that raises, and a value that is no Base.
MainGraphs ==
    {MkGraph(ws, OldValue, 1, b, anon, {}, "none", NoToken) :
        ws \in {{}, Nodes},
        b \in {Absent, NodeV(1), RaiseV, ListV(<<ScalarV("s"), NodeV(3)>>)},
        anon \in {{}, {1}}}
    \cup {MkGraph(Nodes, OldValue, 1, Absent, {}, {x}, "policy", NoToken) :
            x \in {1, 2}}
    \cup NonNode

\* A run of the script: the ledgers are empty, and main's call passes
\* neither depth nor max_depth nor processed.
MainInit ==
    /\ \E g \in MainGraphs :
         /\ fields = g.fields
         /\ oid = g.oid
         /\ fault = g.fault
         /\ obj0 = g.obj0
         /\ SpeckleId = g.tok
    /\ order \in {<<"a", "w", "b">>, <<"b", "w", "a">>}
    /\ max_depth = DefaultMaxDepth
    /\ processed = {}
    /\ changed_ids = <<>>
    /\ same_ids = <<>>
    /\ stack = <<>>
    /\ status = "idle"
    /\ result = FALSE
    /\ walks = 0
    /\ pre = fields
    /\ cmark = 0
    /\ smark = 0
    /\ pmark = 0
    /\ visits = [n \in Nodes |-> 0]
    /\ writes = [n \in Nodes |-> 0]
    /\ last = NoneEnded
    /\ mpc = "parse"
    /\ trail = <<>>

MainNext ==
    \/ ParseUrl
    \/ GetToken
    \/ Authenticate
    \/ VerifyPermissions
    \/ MakeTransport
    \/ GetCommit
    \/ Receive
    \/ Process
    \/ Step
    \/ AfterProcess
    \/ GetStream
    \/ Send
    \/ CreateCommit

MainSpec == MainInit /\ [][MainNext]_vars

\* ================================================================ claims
\* Helpers of the statements below.
Root == obj0.n
Done == status = "returned"
Range(seq) == {seq[i] : i \in 1..Len(seq)}
Count(x, seq) == Cardinality({i \in 1..Len(seq) : seq[i] = x})
HasId(n) == oid[n] # None
\* Object n had the target field when the running/last top-level call began.
HadTarget(n) == pre[n][target_key].k # "absent"

\* The objects a member value refers to.
Targets(v) ==
    IF v.k = "node" THEN {v.n}
    ELSE IF v.k = "list"
         THEN {v.l[i].n : i \in {j \in 1..Len(v.l) : v.l[j].k = "node"}}
         ELSE {}

\* The objects object n refers to in graph f.
Kids(f, n) == UNION {Targets(f[n][name]) : name \in DOMAIN f[n]}

\* The objects some path of at most k edges leads to from the set S.
RECURSIVE Within(_, _, _)
Within(f, S, k) ==
    IF k = 0 THEN S
    ELSE Within(f, S \cup UNION {Kids(f, n) : n \in S}, k - 1)

\* A graph of id-bearing objects in which nothing raises and every target
\* field holds a scalar.
Plain ==
    /\ IsBase(obj0)
    /\ \A n \in Nodes :
         /\ HasId(n)
         /\ fault[n] = "none"
         /\ \A name \in DOMAIN pre[n] : pre[n][name].k # "raise"
         /\ pre[n][target_key].k \in {"absent", "scalar"}

\* ------------------------------------------------------------------ C1
\* C1: within one top-level call an object that has an id is processed
\* (lines 173-196 run on it) at most once, whatever the number of paths
\* that reach it, and the id of every activation that is enumerating its
\* members -- so of every activation with a recursive call above it -- is
\* already in the processed set.
C1_ProcessedOnce ==
    /\ \A n \in Nodes : HasId(n) => visits[n] <= 1
    /\ \A i \in 1..Len(stack) :
         (stack[i].pc = "members" /\ HasId(stack[i].obj.n))
            => oid[stack[i].obj.n] \in processed

\* An object that is still on the stack is reached again (a cycle or a
\* self-reference) and turned away at line 169.
C1_Witness ==
    /\ last.how = "seen"
    /\ status = "running"
    /\ visits[last.obj.n] = 1
    /\ \E i \in 1..Len(stack) : stack[i].obj = last.obj

\* ------------------------------------------------------------------ C2
\* C2 (as claimed): when a top-level call on a plain graph has returned,
\* every object that some path of at most max_depth edges leads to from
\* the root has been processed.
C2_Coverage ==
    (Done /\ Plain)
       => \A n \in Within(pre, {Root}, max_depth) : visits[n] >= 1

\* ------------------------------------------------------------------ C3
\* C3 (as claimed): when a top-level call has returned, every id-bearing
\* object it processed without an exception and that had the target field
\* holds the replacement value there, and its id occurs exactly once in
\* changed_ids.
C3_MutatedOnce ==
    Done => \A n \in Nodes :
              (HasId(n) /\ fault[n] # "policy" /\ visits[n] >= 1
                 /\ HadTarget(n))
                 => /\ fields[n][target_key] = target_value
                    /\ Count(oid[n], changed_ids) = 1

\* ------------------------------------------------------------------ C4
\* C4: when a top-level call has returned, every object that had no target
\* field has exactly the fields and values it had before the call (the
\* target field is not created) and, when it has an id, that id occurs
\* nowhere in changed_ids.
C4_AbsentUntouched ==
    Done => \A n \in Nodes :
              ~HadTarget(n)
                 => /\ fields[n] = pre[n]
                    /\ HasId(n) => oid[n] \notin Range(changed_ids)

\* A call that processed an object without the target field, and wrote the
\* field of another object, has returned.
C4_Witness ==
    /\ Done
    /\ \E n \in Nodes : visits[n] >= 1 /\ ~HadTarget(n)
    /\ \E m \in Nodes : writes[m] >= 1

\* ------------------------------------------------------------------ C5
\* C5: no activation deeper than max_depth gets past line 158: every
\* activation that applied the policy and enumerates members has depth
\* <= max_depth, every object processed in the call is within max_depth
\* edges of the root, and with max_depth = 0 a root that has the target
\* field is rewritten while no other object is processed.
C5_DepthCeiling ==
    /\ \A i \in 1..Len(stack) :
         stack[i].pc = "members" => stack[i].depth <= max_depth
    /\ IsBase(obj0) =>
         LET reach == Within(pre, {Root}, max_depth)
         IN \A n \in Nodes : visits[n] >= 1 => n \in reach
    /\ (Done /\ IsBase(obj0) /\ max_depth = 0 /\ HadTarget(Root))
         => /\ fields[Root][target_key] = target_value
            /\ writes[Root] = 1
            /\ \A n \in Nodes \ {Root} : visits[n] = 0

\* With max_depth = 0 the root has been rewritten and a child of it has
\* just been turned away at depth 1.
C5_Witness ==
    /\ IsBase(obj0)
    /\ max_depth = 0
    /\ writes[Root] = 1
    /\ last.how = "cut"
    /\ last.depth = max_depth + 1
    /\ last.obj.n # Root

\* ------------------------------------------------------------------ C6
SelfRef(n) == n \in Kids(pre, n)

\* C6 (as claimed, the part that fails): an object that refers to itself is
\* rewritten at most once in a top-level call.
C6_SelfRefOnce == \A n \in Nodes : SelfRef(n) => writes[n] <= 1

\* C6 (amended): a started top-level call comes to an end -- it returns,
\* or the exception of C9 leaves it -- on every graph, cyclic ones with or
\* without ids included; an object that refers to itself and has an id is
\* rewritten at most once in the call.
C6_Terminates ==
    /\ (status = "running") ~> (status \in {"returned", "raised"})
    /\ [](\A n \in Nodes : (SelfRef(n) /\ HasId(n)) => writes[n] <= 1)

\* A call on a root that refers to itself, deep enough to follow that
\* reference, has returned after rewriting the root once.
C6_Witness ==
    /\ Done
    /\ IsBase(obj0)
    /\ max_depth >= 1
    /\ SelfRef(Root) /\ HasId(Root)
    /\ writes[Root] = 1

\* ------------------------------------------------------------------ C7
\* The entries changed_ids got in the running/last top-level call, and in
\* the one before it.
ThisRun == SubSeq(changed_ids, cmark + 1, Len(changed_ids))
PrevRun == SubSeq(changed_ids, pmark + 1, cmark)

\* C7: when a second (or later) top-level call on the same graph with the
\* same arguments has returned, the graph is as the call before left it and
\* the set of ids the call appended to changed_ids is the set the call
\* before appended.
C7_Idempotent ==
    (Done /\ walks >= 2)
       => /\ fields = pre
          /\ Range(ThisRun) = Range(PrevRun)

\* A second call has returned after rewriting fields that already held the
\* replacement.
C7_Witness ==
    /\ Done
    /\ walks = 2
    /\ ThisRun # <<>>
    /\ \E n \in Nodes : writes[n] >= 1 /\ pre[n][target_key] = target_value

\* ------------------------------------------------------------------ C8
\* C8: an activation returns TRUE exactly when changed_ids grew while it
\* ran, that is when the target field of its object or of an object
\* processed below it was rewritten; it returns FALSE when it stops at the
\* depth ceiling, at a value that is no Base or at a processed id; the value
\* of the top-level call is the one the caller gets.
C8_ReturnsAnyChange ==
    /\ last.how \in {"cut", "nonnode", "seen", "done"}
         => (last.value <=> last.mutated)
    /\ last.how \in {"cut", "nonnode", "seen"} => ~last.value
    /\ Done => (result <=> Len(changed_ids) > cmark)

\* The top-level call has returned TRUE although the root itself was not
\* rewritten: a descendant was.
C8_Witness ==
    /\ Done
    /\ IsBase(obj0)
    /\ result
    /\ last.top /\ last.how = "done" /\ last.value
    /\ writes[Root] = 0

\* ------------------------------------------------------------------ C9
\* C9 (as claimed): no exception leaves a top-level call.
C9_NoEscape == status # "raised"

\* ----------------------------------------------------------------- C10
\* C10 (as claimed): when a top-level call has returned, changed_ids and
\* same_ids hold only what that call appended.
C10_LedgerScoped ==
    Done => /\ changed_ids = ThisRun
            /\ same_ids = SubSeq(same_ids, smark + 1, Len(same_ids))

\* ----------------------------------------------------------------- C11
\* The step is one in which an exception leaves an activation that has a
\* caller (recursing into a member raised).
ChildRaises ==
    /\ Running /\ Top.pc = "enter" /\ Len(stack) > 1
    /\ Len(stack') = Len(stack) - 1
    /\ last'.how = "raised"

\* The step is one in which reading a member raises.
FetchRaises ==
    /\ Running /\ Top.pc = "members" /\ Top.items = <<>> /\ Top.names # <<>>
    /\ fields[Top.obj.n][Head(Top.names)].k = "raise"
    /\ stack' # stack

\* C11: when fetching a member or recursing into one raises, the caller
\* stays in its member loop with every later member name still to visit, the
\* activations of its ancestors are as they were, and the top-level call
\* goes on running.
C11_MemberIsolation ==
    [][/\ ChildRaises
          => /\ status' = "running"
             /\ \A i \in 1..Len(stack') :
                  /\ stack'[i].obj = stack[i].obj
                  /\ stack'[i].pc = "members"
                  /\ stack'[i].names = stack[i].names
       /\ FetchRaises
          => /\ status' = "running"
             /\ Len(stack') = Len(stack)
             /\ stack'[Len(stack)].names = Tail(Top.names)
             /\ stack'[Len(stack)].pc = "members"
             /\ Below = SubSeq(stack', 1, Len(stack) - 1)]_vars

\* The root's first member b led to an object whose policy block raised;
\* the later member a has been walked all the same and the call returned.
C11_Witness ==
    /\ Done
    /\ IsBase(obj0)
    /\ order[1] = "b"
    /\ \E x \in Nodes \ {Root, 2} :
         /\ pre[Root]["b"] = NodeV(x)
         /\ fault[x] = "policy"
         /\ visits[x] = 1
    /\ visits[2] = 1

\* ----------------------------------------------------------------- C12
\* The objects a member value leads to, in the order the loop of lines
\* 208-220 reaches them.
ChildSeq(v) ==
    IF v.k = "node" THEN <<v.n>>
    ELSE IF v.k = "list"
         THEN LET nodes == SelectSeq(v.l, LAMBDA e : e.k = "node")
              IN [i \in 1..Len(nodes) |-> nodes[i].n]
         ELSE <<>>

\* The objects object n leads to through the members `names`.
RECURSIVE OutEdges(_, _, _)
OutEdges(f, n, names) ==
    IF names = <<>> THEN <<>>
    ELSE ChildSeq(f[n][Head(names)]) \o OutEdges(f, n, Tail(names))

\* The members of object n the walk follows, in listing order: none when
\* listing them raises, and not the target field once it is rewritten.
Followed(n) ==
    IF fault[n] = "names" THEN <<>>
    ELSE SelectSeq(order, LAMBDA name : name # target_key \/ ~HadTarget(n))

\* Depth-first pre-order of the graph f from object n: acc.seq is the order
\* so far, acc.seen the objects in it; an object without id is taken again
\* at every arrival.
RECURSIVE Visit(_, _, _, _)
RECURSIVE VisitAll(_, _, _, _)
Visit(f, n, depth, acc) ==
    IF depth > max_depth \/ (HasId(n) /\ n \in acc.seen) THEN acc
    ELSE VisitAll(f, OutEdges(f, n, Followed(n)), depth + 1,
                  [seq |-> Append(acc.seq, n), seen |-> acc.seen \cup {n}])

VisitAll(f, kids, depth, acc) ==
    IF kids = <<>> THEN acc
    ELSE VisitAll(f, Tail(kids), depth, Visit(f, Head(kids), depth, acc))

\* No policy block raises (the case of C9 and C18).
PolicySound == IsBase(obj0) /\ \A n \in Nodes : fault[n] # "policy"

PreOrder == Visit(pre, Root, 0, [seq |-> <<>>, seen |-> {}]).seq

\* The ids of the objects of PreOrder that had the target field.
ExpectedMutated ==
    LET hits == SelectSeq(PreOrder, LAMBDA n : HadTarget(n))
    IN [i \in 1..Len(hits) |-> oid[hits[i]]]

InScenario ==
    /\ IsBase(obj0)
    /\ pre[Root]["b"] = ListV(<<NodeV(3), ScalarV("s"), NodeV(2)>>)
    /\ pre[Root]["a"] = NodeV(2)
    /\ \A n \in Nodes : HadTarget(n) <=> n = 3
    /\ \A n \in Nodes : HasId(n) /\ fault[n] = "none"
    /\ max_depth >= 1

\* C12: when a top-level call that started with an empty changed_ids has
\* returned and no policy block raised, changed_ids is the sequence of
\* the ids of the processed objects that had the target field, in
\* depth-first pre-order
\* (an object before its descendants, members in listing order, list
\* elements in list order, elements that are no Base skipped).  On the root
\* {a: X, b: [Y, scalar, X]} with the target field on Y only, changed_ids is
\* <<Y.id>>, Y's field holds the replacement and X was processed once.
C12_PreOrder ==
    /\ (Done /\ PolicySound /\ cmark = 0) => changed_ids = ExpectedMutated
    /\ (Done /\ InScenario /\ cmark = 0)
         => /\ changed_ids = <<oid[3]>>
            /\ fields[3][target_key] = target_value
            /\ visits[2] = 1

\* The first call on the scenario graph has returned, and X was turned away
\* at its second arrival.
C12_Witness ==
    /\ Done /\ InScenario /\ Plain
    /\ walks = 1
    /\ cmark = 0
    /\ changed_ids # <<>>

\* ----------------------------------------------------------------- C13
\* The entries same_ids got in the running/last top-level call.
SameRun == SubSeq(same_ids, smark + 1, Len(same_ids))

\* How often the objects of S were processed in that call.
RECURSIVE SumVisits(_)
SumVisits(S) ==
    IF S = {} THEN 0
    ELSE LET n == CHOOSE m \in S : TRUE
         IN visits[n] + SumVisits(S \ {n})

\* C13: at every moment of a top-level call, an id that differs from
\* SpeckleId occurs in the call's part of same_ids once for each time an
\* object with that id (None for an object without id) was processed,
\* whether or not the object has the target field, and an id equal to
\* SpeckleId does not occur there at all.
C13_SameIds ==
    \A n \in Nodes :
       Count(oid[n], SameRun) =
          IF oid[n] = SpeckleId THEN 0
          ELSE SumVisits({m \in Nodes : oid[m] = oid[n]})

\* A call whose SpeckleId is the root's id has returned: the root was
\* processed and rewritten, and is not among the ids the call recorded,
\* while an object without the target field is.
C13_Witness ==
    /\ Done
    /\ IsBase(obj0)
    /\ SpeckleId = oid[Root]
    /\ writes[Root] = 1
    /\ oid[Root] \notin Range(SameRun)
    /\ \E n \in Nodes : ~HadTarget(n) /\ oid[n] \in Range(SameRun)

\* ----------------------------------------------------------------- C14
\* The number of paths of at most max_depth - d further edges that lead
\* from object `from`, reached after d edges, to object n.
RECURSIVE PathCount(_, _, _)
RECURSIVE PathSum(_, _, _)
PathCount(from, n, d) ==
    (IF from = n THEN 1 ELSE 0)
      + IF d >= max_depth THEN 0
        ELSE PathSum(OutEdges(pre, from, order), n, d + 1)

PathSum(kids, n, d) ==
    IF kids = <<>> THEN 0
    ELSE PathCount(Head(kids), n, d) + PathSum(Tail(kids), n, d)

\* How often the target fields of the objects of S were written.
RECURSIVE SumWrites(_)
SumWrites(S) ==
    IF S = {} THEN 0
    ELSE LET n == CHOOSE m \in S : TRUE
         IN writes[n] + SumWrites(S \ {n})

NoId == {n \in Nodes : ~HasId(n)}

FrameKept ==
    \A n \in Nodes :
       /\ DOMAIN fields[n] = DOMAIN pre[n]
       /\ \A name \in DOMAIN pre[n] :
            fields[n][name] # pre[n][name]
               => /\ name = target_key
                  /\ pre[n][name].k # "absent"
                  /\ fields[n][name] = target_value
                  /\ visits[n] >= 1

\* C15: a top-level call changes nothing in the graph but the value of the
\* target field of objects it processes and that have the field: every
\* other member of every object, lists with their elements and order
\* included, every member of an object that was not processed, and the id
\* of every object are as before the call, and no object or member
\* disappears.
C15_Frame ==
    /\ []FrameKept
    /\ [][oid' = oid /\ DOMAIN fields' = DOMAIN fields]_vars

\* A call has returned after rewriting an object that holds a list, while
\* an object with the target field was never reached and is as it was.
C15_Witness ==
    /\ Done
    /\ \E n \in Nodes :
         /\ writes[n] >= 1
         /\ pre[n]["b"].k = "list" /\ Len(pre[n]["b"].l) = 2
         /\ fields[n]["b"] = pre[n]["b"]
    /\ \E m \in Nodes :
         /\ visits[m] = 0 /\ HadTarget(m)
         /\ fields[m][target_key] = OldValue

\* ----------------------------------------------------------------- C16
\* An activation is about to run the guards of lines 158-171.
Arriving == Running /\ Top.pc = "enter"

\* What the guards do in one step of an arriving activation.
GuardStep ==
    /\ (Arriving /\ Top.depth > max_depth)
          => /\ last'.how = "cut"
             /\ processed' = processed
             /\ changed_ids' = changed_ids
             /\ same_ids' = same_ids
             /\ visits' = visits
    /\ (Arriving /\ Top.depth <= max_depth /\ IsBase(Top.obj)
           /\ visits[Top.obj.n] = 0)
          => visits'[Top.obj.n] = 1

\* C16: an arrival at depth > max_depth ends at line 160 whether or not the
\* object's id is in the processed set, and leaves the processed set,
\* changed_ids and same_ids as they are; the processed set therefore holds
\* the ids of the objects the call processed and no other, and an arrival
\* at depth <= max_depth at an object the call has not processed yet
\* processes it.
C16_GuardOrder ==
    /\ [](\A n \in Nodes :
            HasId(n) => (oid[n] \in processed <=> visits[n] >= 1))
    /\ [][GuardStep]_vars

\* With max_depth = 1 and member a listed before b, object 3 was reached
\* first through 1.a -> 2.a at depth 2 and turned away, then through 1.b at
\* depth 1 and processed; the call has returned.
C16_Witness ==
    /\ Done
    /\ max_depth = 1
    /\ order[1] = "a"
    /\ IsBase(obj0) /\ Root = 1
    /\ pre[1]["a"] = NodeV(2) /\ pre[2]["a"] = NodeV(3)
    /\ pre[1]["b"] = NodeV(3)
    /\ \A n \in Nodes : fault[n] = "none"
    /\ visits[2] = 1
    /\ visits[3] = 1
    /\ HadTarget(3) => oid[3] \in Range(ThisRun)

\* ----------------------------------------------------------------- C17
\* The objects object n refers to once its target field, if it had one, is
\* rewritten.
KidsAfter(n) ==
    UNION {Targets(pre[n][name]) :
             name \in {m \in DOMAIN pre[n] :
                         m # target_key \/ ~HadTarget(n)}}

\* The objects some path of at most k such edges leads to from the set S.
RECURSIVE WithinAfter(_, _)
WithinAfter(S, k) ==
    IF k = 0 THEN S
    ELSE WithinAfter(S \cup UNION {KidsAfter(n) : n \in S}, k - 1)

\* C17: the policy runs before the members are enumerated and members are
\* read after the rewrite: the target field of every activation that is in
\* its member loop holds the replacement when the object had the field, and
\* every object the call processes is within max_depth edges of the root
\* along references other than rewritten target fields -- the walk never
\* descends into an object through a target field that held it.
C17_PolicyFirst ==
    /\ \A i \in 1..Len(stack) :
         (stack[i].pc = "members" /\ HadTarget(stack[i].obj.n))
            => fields[stack[i].obj.n][target_key] = target_value
    /\ IsBase(obj0)
         => LET reach == WithinAfter({Root}, max_depth)
            IN \A n \in Nodes : visits[n] >= 1 => n \in reach

\* The root's target field held object 3, one edge away through that field
\* and too deep along the chain: the call rewrote the field, returned, and
\* never processed object 3.
C17_Witness ==
    /\ Done
    /\ IsBase(obj0)
    /\ max_depth = 1
    /\ pre[Root][target_key] = NodeV(3)
    /\ fields[Root][target_key] = target_value
    /\ 3 \in Within(pre, {Root}, max_depth)
    /\ visits[2] = 1
    /\ visits[3] = 0

\* ----------------------------------------------------------------- C18
\* What a step does in which an exception leaves an activation that has a
\* caller: the caller drops what is left of the list it was iterating,
\* keeps its later member names, and nothing written so far is undone.
ListRaiseStep ==
    ChildRaises
       => /\ stack'[Len(stack')].items = <<>>
          /\ stack'[Len(stack')].names = Below[Len(Below)].names
          /\ stack'[Len(stack')].pc = "members"
          /\ fields' = fields
          /\ changed_ids' = changed_ids
          /\ writes' = writes

\* C18: when recursing into an element of a list member raises, the
\* handler of the member catches it: the elements after it in that list are
\* not visited in this enumeration, what was written before stays written,
\* and the walk goes on with the next member name of the object.
C18_ListAbandoned == [][ListRaiseStep]_vars

\* The root's first member b is the list [3, 4] and the policy block of
\* object 3 raised: object 4, which only the list leads to within
\* max_depth = 1, was never processed, and the later member a was walked.
C18_Witness ==
    /\ Done
    /\ IsBase(obj0)
    /\ max_depth = 1
    /\ order[1] = "b"
    /\ pre[Root]["b"] = ListV(<<NodeV(3), NodeV(4)>>)
    /\ fault[3] = "policy"
    /\ visits[3] = 1
    /\ visits[4] = 0
    /\ visits[2] = 1
    /\ writes[Root] = 1 /\ fields[Root][target_key] = target_value

\* ----------------------------------------------------------------- C19
\* The steps of main in the order of the code.
Pipeline ==
    <<"parse", "token", "auth", "verify", "transport", "commit", "receive",
      "process", "stream", "send", "create">>

IsPrefix(s, t) == Len(s) <= Len(t) /\ s = SubSeq(t, 1, Len(s))

\* The steps that succeeded are the first steps of the pipeline, in its
\* order, and main is at the step after them, or has ended.
InOrder ==
    /\ IsPrefix(trail, Pipeline)
    /\ \A i \in 1..Len(Pipeline) : mpc = Pipeline[i] => Len(trail) = i - 1
    /\ mpc = "walking" => Len(trail) = 7
    /\ mpc = "completed" <=> trail = Pipeline
    /\ mpc \in {"returned", "reraised"} => Len(trail) < Len(Pipeline)

\* C19: the commit is created only when every step before it has succeeded,
\* in the order of the code -- URL parsed, token present, authentication,
\* permission check, transport, commit fetched, object received,
\* process_object returned, stream found, object sent; a run that ended
\* at a failing step has sent or committed nothing after that step; and
\* when process_object has returned main goes on to the stream check
\* whatever the value returned.
C19_CommitLast ==
    /\ []InOrder
    /\ []("create" \in Range(trail) => trail = Pipeline)
    /\ []("send" \in Range(trail) => IsPrefix(SubSeq(Pipeline, 1, 10), trail))
    /\ [][(mpc = "walking" /\ status = "returned") => mpc' = "stream"]_vars

\* A run has completed with the commit created although process_object
\* returned False: no object had the target field.
C19_Witness ==
    /\ mpc = "completed"
    /\ "create" \in Range(trail)
    /\ status = "returned"
    /\ ~result
    /\ changed_ids = <<>>
    /\ \E n \in Nodes : visits[n] >= 1

====
